---- MODULE Spec2Model ----
(***************************************************************************)
(* Model of peer/configuration.rs: the Configuration value and its one     *)
(* derived accessor get_ice_servers(), which clones the stored ICE server  *)
(* list and strips the query from every URL that starts with "stun".       *)
(*                                                                         *)
(* A string is a sequence of one-character strings.  A call of             *)
(* get_ice_servers() is a small process: the clone, one step per loop      *)
(* iteration, the return; several callers interleave on one instance.      *)
(***************************************************************************)
EXTENDS Naturals, Sequences, FiniteSets, TLC

VARIABLES cfg, shared, pristine, pc, local, pos, result, prev

vars == <<cfg, shared, pristine, pc, local, pos, result, prev>>

(***************************************************************************)
(* Bounds of the model.                                                    *)
(***************************************************************************)
\* longest run of characters that follows a scheme prefix in a generated URL
MaxTail == 4
\* most server entries the owner pushes into ice_servers
MaxServers == 2
\* callers sharing one Configuration
NumThreads == 2

Threads == 1 .. NumThreads

(***************************************************************************)
(* Strings.                                                                *)
(***************************************************************************)
STUN == <<"s", "t", "u", "n">>
STUNS == <<"s", "t", "u", "n", "s">>
TURN == <<"t", "u", "r", "n">>
TURNS == <<"t", "u", "r", "n", "s">>
UPPER_STUN == <<"S", "T", "U", "N">>
STU == <<"s", "t", "u">>
QUERY == "?"

\* str::starts_with
starts_with_ignore_case(s, prefix) ==
    LET lower(c) == CASE c = "S" -> "s" [] c = "T" -> "t" [] c = "U" -> "u"
                      [] c = "N" -> "n" [] OTHER -> c
    IN  /\ Len(s) >= Len(prefix)
        /\ \A k \in 1 .. Len(prefix) : lower(s[k]) = lower(prefix[k])

starts_with(s, prefix) ==
    /\ Len(s) >= Len(prefix)
    /\ SubSeq(s, 1, Len(prefix)) = prefix

\* str::split(char).collect(): the segments between the separators; a string
\* without the separator (the empty string too) is one segment
RECURSIVE split(_, _)
split(s, sep) ==
    IF \A k \in 1 .. Len(s) : s[k] # sep
    THEN <<s>>
    ELSE LET k == CHOOSE m \in 1 .. Len(s) :
                      /\ s[m] = sep
                      /\ \A l \in 1 .. (m - 1) : s[l] # sep
         IN  <<SubSeq(s, 1, k - 1)>> \o split(SubSeq(s, k + 1, Len(s)), sep)

\* the outcome of an out-of-bounds index
Panic == <<"!panic">>

\* everything before the last separator
strip_last_query(raw_url) ==
    LET qs == {k \in 1 .. Len(raw_url) : raw_url[k] = QUERY}
    IN  IF ~starts_with(raw_url, STUN) \/ qs = {}
        THEN raw_url
        ELSE SubSeq(raw_url, 1, (CHOOSE k \in qs : \A l \in qs : l <= k) - 1)

\* the second segment instead of the first
strip_second_part(raw_url) ==
    IF starts_with(raw_url, STUN)
    THEN LET parts == split(raw_url, QUERY)
         IN  IF Len(parts) < 2 THEN Panic ELSE parts[2]
    ELSE raw_url

\* the prefix test left out
strip_any_scheme(raw_url) ==
    LET parts == split(raw_url, QUERY)
    IN  IF Len(parts) < 1 THEN Panic ELSE parts[1]

\* the body of the inner loop: the new value of *raw_url
strip_query(raw_url) ==
    IF starts_with(raw_url, STUN)
    THEN LET parts == split(raw_url, QUERY)
         IN  IF Len(parts) < 1 THEN Panic ELSE parts[1]
    ELSE raw_url

(***************************************************************************)
(* Values.                                                                 *)
(***************************************************************************)
ICEServer(urls, username, credential) ==
    [urls |-> urls, username |-> username, credential |-> credential]

EMPTY == << >>
JCH == <<"j", "c", "h">>
TOPSECRET == <<"t", "o", "p", "s", "e", "c", "r", "e", "t">>

\* a hand-written default that presets a public STUN server and a pool
Configuration_preset ==
    [ ice_servers             |-> <<ICEServer(<<STUN \o <<":", "h">>>>, EMPTY, EMPTY)>>,
      ice_transport_policy    |-> "default",
      bundle_policy           |-> "default",
      rtcp_mux_policy         |-> "default",
      peer_identity           |-> EMPTY,
      certificates            |-> << >>,
      ice_candidate_pool_size |-> 1,
      sdp_policy              |-> "default" ]

\* #[derive(Default)]: every field is its type's default
Configuration_default ==
    [ ice_servers             |-> << >>,
      ice_transport_policy    |-> "default",
      bundle_policy           |-> "default",
      rtcp_mux_policy         |-> "default",
      peer_identity           |-> EMPTY,
      certificates            |-> << >>,
      ice_candidate_pool_size |-> 0,
      sdp_policy              |-> "default" ]

\* Configuration { ice_servers: ..., ..Default::default() }
Configuration_with(servers) ==
    [Configuration_default EXCEPT !.ice_servers = servers]

RECURSIVE SeqsUpTo(_, _)
SeqsUpTo(S, n) ==
    IF n = 0 THEN {<< >>}
    ELSE LET shorter == SeqsUpTo(S, n - 1)
         IN  shorter \cup {Append(q, x) : q \in {r \in shorter : Len(r) = n - 1}, x \in S}

Schemes == {EMPTY, STUN, STUNS, TURN, TURNS, UPPER_STUN, STU}
TailChars == {QUERY, ":", "x"}
Urls == {p \o tl : p \in Schemes, tl \in SeqsUpTo(TailChars, MaxTail)}

\* the server entries the owner pushes
ServerPool ==
    { ICEServer(<<STUN \o <<":", "h", "?", "x">>>>, JCH, TOPSECRET),
      ICEServer(<<TURN \o <<"?", "x">>, STUNS \o <<"?", "a", "?", "b">>>>, EMPTY, EMPTY),
      ICEServer(<< >>, EMPTY, EMPTY) }

PoolSizes == {0, 255}
Identities == {EMPTY, <<"p">>}

(***************************************************************************)
(* The accessor as one function of the Configuration.                      *)
(***************************************************************************)
\* Vec::clone with a fallback entry for an empty list
clone_or_fallback(v) ==
    IF v = << >> THEN <<ICEServer(<<STUN>>, EMPTY, EMPTY)>> ELSE v

\* a copy that leaves out the entries without URLs
clone_with_urls(v) ==
    SelectSeq(v, LAMBDA server : server.urls # << >>)

\* Vec<ICEServer>::clone: a deep copy, equal to the original
clone(v) == v

get_ice_servers(c) ==
    [i \in 1 .. Len(c.ice_servers) |->
        [c.ice_servers[i] EXCEPT
            !.urls = [j \in 1 .. Len(c.ice_servers[i].urls) |->
                          strip_query(c.ice_servers[i].urls[j])]]]

(***************************************************************************)
(* State.                                                                  *)
(*   cfg       the Configuration                                           *)
(*   shared    the owner has stopped mutating cfg and handed it to callers *)
(*   pristine  cfg is still the value Default::default() built             *)
(*   pc        per caller: "idle", "loop" (inside get_ice_servers),        *)
(*             "done" (holds the returned list), "modified" (has changed   *)
(*             its returned list), "panicked"                              *)
(*   local     per caller: the local variable ice_servers of the call      *)
(*   pos       per caller: <<i, j>>, the server and URL the loops are at   *)
(*   result    per caller: the list the call returned                      *)
(*   prev      << >>, or <<in, out>> when cfg was built from the list out  *)
(*             that a call on the list in returned                         *)
(***************************************************************************)
TypeOK ==
    /\ shared \in BOOLEAN
    /\ pristine \in BOOLEAN
    /\ pc \in [Threads -> {"idle", "loop", "done", "modified", "panicked"}]
    /\ DOMAIN local = Threads
    /\ DOMAIN result = Threads
    /\ \A t \in Threads : pos[t][1] \in Nat \ {0} /\ pos[t][2] \in Nat \ {0}
    /\ Len(prev) \in {0, 2}

Idle ==
    /\ pc = [t \in Threads |-> "idle"]
    /\ local = [t \in Threads |-> << >>]
    /\ pos = [t \in Threads |-> <<1, 1>>]
    /\ result = [t \in Threads |-> << >>]

\* Configuration::default(), owned by the code that built it
Init ==
    /\ cfg = Configuration_default
    /\ shared = FALSE
    /\ pristine = TRUE
    /\ prev = << >>
    /\ Idle

(***************************************************************************)
(* The owner: the fields are pub, and are assigned before the value is     *)
(* handed out ("Configurations are treated as readonly").                  *)
(***************************************************************************)
Owner(next_cfg) ==
    /\ ~shared
    /\ cfg' = next_cfg
    /\ pristine' = FALSE
    /\ UNCHANGED <<shared, pc, local, pos, result, prev>>

PushIceServer ==
    \E s \in ServerPool :
        /\ Len(cfg.ice_servers) < MaxServers
        /\ Owner([cfg EXCEPT !.ice_servers = Append(@, s)])

SetIceCandidatePoolSize ==
    \E n \in PoolSizes : Owner([cfg EXCEPT !.ice_candidate_pool_size = n])

SetPeerIdentity ==
    \E p \in Identities : Owner([cfg EXCEPT !.peer_identity = p])

SetPolicies ==
    Owner([cfg EXCEPT !.ice_transport_policy = "relay",
                      !.bundle_policy = "balanced",
                      !.rtcp_mux_policy = "require"])

Share ==
    /\ ~shared
    /\ shared' = TRUE
    /\ UNCHANGED <<cfg, pristine, pc, local, pos, result, prev>>

(***************************************************************************)
(* One call of get_ice_servers(&self) by caller t.                         *)
(***************************************************************************)
\* let mut ice_servers = self.ice_servers.clone();
Call(t) ==
    /\ shared
    /\ pc[t] = "idle"
    /\ pc' = [pc EXCEPT ![t] = "loop"]
    /\ local' = [local EXCEPT ![t] = clone(cfg.ice_servers)]
    /\ pos' = [pos EXCEPT ![t] = <<1, 1>>]
    /\ UNCHANGED <<cfg, shared, pristine, result, prev>>

\* one iteration that also writes the new URL into self.ice_servers
StepInPlace(t) ==
    LET i == pos[t][1]
        j == pos[t][2]
    IN  /\ pc[t] = "loop"
        /\ i <= Len(local[t])
        /\ IF j <= Len(local[t][i].urls)
           THEN LET url == strip_query(local[t][i].urls[j])
                IN  /\ url # Panic
                    /\ local' = [local EXCEPT ![t][i].urls[j] = url]
                    /\ cfg' = [cfg EXCEPT !.ice_servers[i].urls[j] = url]
                    /\ pos' = [pos EXCEPT ![t] = <<i, j + 1>>]
                    /\ pc' = pc
           ELSE /\ pos' = [pos EXCEPT ![t] = <<i + 1, 1>>]
                /\ UNCHANGED <<cfg, local, pc>>
        /\ UNCHANGED <<shared, pristine, result, prev>>

\* for ice_server in &mut ice_servers { for raw_url in &mut ice_server.urls { .. } }
\* one step is one iteration of the inner loop, or the move to the next server
Step(t) ==
    LET i == pos[t][1]
        j == pos[t][2]
    IN  /\ pc[t] = "loop"
        /\ i <= Len(local[t])
        /\ IF j <= Len(local[t][i].urls)
           THEN LET url == strip_query(local[t][i].urls[j])
                IN  IF url = Panic
                    THEN /\ pc' = [pc EXCEPT ![t] = "panicked"]
                         /\ UNCHANGED <<local, pos>>
                    ELSE /\ local' = [local EXCEPT ![t][i].urls[j] = url]
                         /\ pos' = [pos EXCEPT ![t] = <<i, j + 1>>]
                         /\ pc' = pc
           ELSE /\ pos' = [pos EXCEPT ![t] = <<i + 1, 1>>]
                /\ UNCHANGED <<local, pc>>
        /\ UNCHANGED <<cfg, shared, pristine, result, prev>>

\* ice_servers   (the local list is moved out to the caller)
Return(t) ==
    /\ pc[t] = "loop"
    /\ pos[t][1] > Len(local[t])
    /\ pc' = [pc EXCEPT ![t] = "done"]
    /\ result' = [result EXCEPT ![t] = local[t]]
    /\ local' = [local EXCEPT ![t] = << >>]
    /\ pos' = [pos EXCEPT ![t] = <<1, 1>>]
    /\ UNCHANGED <<cfg, shared, pristine, prev>>

(***************************************************************************)
(* The caller owns what it got.                                            *)
(***************************************************************************)
\* the caller overwrites the first URL of its list, if any, and pushes an entry
caller_edit(v) ==
    LET w == IF Len(v) > 0 /\ Len(v[1].urls) > 0
             THEN [v EXCEPT ![1].urls[1] = <<"x">>]
             ELSE v
    IN  Append(w, ICEServer(<<TURN>>, EMPTY, EMPTY))

\* the returned list shares its storage with self.ice_servers
CallerModifyAliased(t) ==
    /\ pc[t] = "done"
    /\ pc' = [pc EXCEPT ![t] = "modified"]
    /\ result' = [result EXCEPT ![t] = caller_edit(@)]
    /\ cfg' = [cfg EXCEPT !.ice_servers = caller_edit(result[t])]
    /\ UNCHANGED <<shared, pristine, local, pos, prev>>

CallerModify(t) ==
    /\ pc[t] = "done"
    /\ pc' = [pc EXCEPT ![t] = "modified"]
    /\ result' = [result EXCEPT ![t] = caller_edit(@)]
    /\ UNCHANGED <<cfg, shared, pristine, local, pos, prev>>

\* the returned list goes out of scope; the caller may call again
Drop(t) ==
    /\ pc[t] \in {"done", "modified"}
    /\ pc' = [pc EXCEPT ![t] = "idle"]
    /\ result' = [result EXCEPT ![t] = << >>]
    /\ UNCHANGED <<cfg, shared, pristine, local, pos, prev>>

Next ==
    \/ PushIceServer
    \/ SetIceCandidatePoolSize
    \/ SetPeerIdentity
    \/ SetPolicies
    \/ Share
    \/ \E t \in Threads : Call(t)
    \/ \E t \in Threads : Step(t)
    \/ \E t \in Threads : Return(t)
    \/ \E t \in Threads : CallerModify(t)
    \/ \E t \in Threads : Drop(t)

Spec == Init /\ [][Next]_vars

(***************************************************************************)
(* The accessor over a wide set of URLs: one caller, and Configurations    *)
(* built from what a call returned.                                        *)
(***************************************************************************)
InitUrl ==
    /\ \E servers \in {<<ICEServer(<<u>>, EMPTY, EMPTY)>> : u \in Urls}
                          \cup SeqsUpTo(ServerPool, MaxServers) :
           cfg = Configuration_with(servers)
    /\ shared = TRUE
    /\ pristine = FALSE
    /\ prev = << >>
    /\ Idle

\* Configuration { ice_servers: <the returned list>, ..Default::default() }
Rebuild(t) ==
    /\ pc[t] = "done"
    /\ cfg' = Configuration_with(result[t])
    /\ prev' = <<cfg.ice_servers, result[t]>>
    /\ pc' = [pc EXCEPT ![t] = "idle"]
    /\ result' = [result EXCEPT ![t] = << >>]
    /\ UNCHANGED <<shared, pristine, local, pos>>

NextUrl ==
    \/ Call(1)
    \/ Step(1)
    \/ Return(1)
    \/ Rebuild(1)

SpecUrl == InitUrl /\ [][NextUrl]_vars

\* a call that has started keeps running: it is straight-line code of one thread
FairSpecUrl == SpecUrl /\ WF_vars(Step(1) \/ Return(1))

(***************************************************************************)
(* Vocabulary of the properties, defined on the strings themselves.        *)
(***************************************************************************)
has_query(u) == \E k \in 1 .. Len(u) : u[k] = QUERY

first_query(u) ==
    CHOOSE k \in 1 .. Len(u) : u[k] = QUERY /\ \A l \in 1 .. (k - 1) : u[l] # QUERY

before_first_query(u) == SubSeq(u, 1, first_query(u) - 1)

count_query(u) == Cardinality({k \in 1 .. Len(u) : u[k] = QUERY})

begins(u, a, b, c, d) ==
    Len(u) >= 4 /\ u[1] = a /\ u[2] = b /\ u[3] = c /\ u[4] = d

is_prefix(a, b) == Len(a) <= Len(b) /\ \A k \in 1 .. Len(a) : a[k] = b[k]

\* the positions <<i, j>> of the URLs stored in cfg
stored_positions ==
    UNION {{<<i, j>> : j \in 1 .. Len(cfg.ice_servers[i].urls)} :
               i \in 1 .. Len(cfg.ice_servers)}

stored_url(q) == cfg.ice_servers[q[1]].urls[q[2]]

\* the URL caller t was given at position q; Panic when there is none
returned_url(t, q) ==
    IF q[1] <= Len(result[t])
    THEN IF q[2] <= Len(result[t][q[1]].urls) THEN result[t][q[1]].urls[q[2]] ELSE Panic
    ELSE Panic

Returned == {t \in Threads : pc[t] = "done"}

\* a step of some call of get_ice_servers()
GetIceServersStep == \E t \in Threads : Call(t) \/ Step(t) \/ Return(t)

\* a step of caller t, inside a call or on the list it was given
CallerStep(t) == Call(t) \/ Step(t) \/ Return(t) \/ CallerModify(t) \/ Drop(t)

(***************************************************************************)
(* The properties.                                                         *)
(***************************************************************************)
\* C1: for every stored URL that starts with "stun" (so "stuns" too), a
\* returned call gives the substring before the first "?" when the URL has
\* one (also when it has several), and the returned URL differs from the
\* stored one exactly when the stored one has a "?".
C1_StunQueryStripped ==
    \A t \in Returned : \A q \in stored_positions :
        LET u == stored_url(q)
            r == returned_url(t, q)
        IN  begins(u, "s", "t", "u", "n") =>
                /\ has_query(u) => r = before_first_query(u)
                /\ (r # u) <=> has_query(u)

C1_Witness ==
    \E t \in Returned : \E q \in stored_positions :
        /\ begins(stored_url(q), "s", "t", "u", "n")
        /\ count_query(stored_url(q)) >= 2
        /\ returned_url(t, q) = before_first_query(stored_url(q))
        /\ returned_url(t, q) # stored_url(q)

\* C2: every stored URL that starts with "turn" (so "turns" too) is returned
\* verbatim at the same position, with or without a query.
C2_TurnVerbatim ==
    \A t \in Returned : \A q \in stored_positions :
        begins(stored_url(q), "t", "u", "r", "n") => returned_url(t, q) = stored_url(q)

C2_Witness ==
    \E t \in Returned : \E q \in stored_positions :
        /\ begins(stored_url(q), "t", "u", "r", "n")
        /\ Len(stored_url(q)) >= 5 /\ stored_url(q)[5] = "s"
        /\ has_query(stored_url(q))
        /\ returned_url(t, q) = stored_url(q)

\* C3: no step of a call of get_ice_servers() changes the Configuration:
\* ice_servers and every other field keep their values over any number of calls.
C3_NonMutation == [][GetIceServersStep => cfg' = cfg]_vars

C3_Witness ==
    /\ \A t \in Threads : pc[t] = "done" /\ result[t] # cfg.ice_servers
    /\ \E q \in stored_positions :
           begins(stored_url(q), "s", "t", "u", "n") /\ has_query(stored_url(q))

\* C4: on a shared Configuration, under every interleaving, each call returns
\* what a call made alone returns, no step of a caller writes the
\* Configuration, and no step of a caller (a change to its returned list
\* included) changes what another caller holds.
C4_ConcurrentReads ==
    /\ [](\A t \in Returned : result[t] = get_ice_servers(cfg))
    /\ [][\A t \in Threads : CallerStep(t) =>
              /\ cfg' = cfg
              /\ \A o \in Threads \ {t} :
                     result'[o] = result[o] /\ local'[o] = local[o]]_vars

C4_Witness ==
    \E t \in Threads : \E o \in Threads \ {t} :
        /\ pc[t] = "loop" /\ pos[t][2] > 1
        /\ local[t] # cfg.ice_servers
        /\ pc[o] = "modified"
        /\ result[o] # get_ice_servers(cfg)

\* C5: a call on a Configuration built from the list a call returned gives
\* that list again.
C5_Idempotent ==
    \A t \in Returned : prev # << >> => result[t] = prev[2]

C5_Witness ==
    \E t \in Returned :
        /\ prev # << >>
        /\ prev[1] # prev[2]
        /\ result[t] = prev[2]

\* C6: a call never panics, and a call that has started returns a list.
C6_Total ==
    /\ [](\A t \in Threads : pc[t] # "panicked")
    /\ (pc[1] = "loop") ~> (pc[1] = "done")

C6_Witness ==
    \E t \in Returned :
        /\ cfg.ice_servers # << >>
        /\ cfg.ice_servers[1].urls = <<<<QUERY>>>>
        /\ result[t] = cfg.ice_servers

\* C7: with an empty ice_servers list a call returns an empty list, whatever
\* the other fields hold.
C7_EmptyList ==
    \A t \in Returned : cfg.ice_servers = << >> => result[t] = << >>

C7_Witness ==
    \E t \in Returned :
        /\ cfg.ice_servers = << >>
        /\ result[t] = << >>
        /\ cfg.ice_candidate_pool_size = 255
        /\ cfg.ice_transport_policy = "relay"
        /\ cfg.peer_identity # EMPTY

\* C8: the Configuration built by Default::default() has pool size 0, an
\* empty peer_identity, no ice_servers and no certificates, and a call on it
\* returns an empty list.
C8_Defaults ==
    pristine =>
        /\ cfg.ice_candidate_pool_size = 0
        /\ cfg.peer_identity = EMPTY
        /\ cfg.ice_servers = << >>
        /\ cfg.certificates = << >>
        /\ \A t \in Threads : pc[t] # "panicked"
        /\ \A t \in Returned : result[t] = << >>

C8_Witness ==
    /\ pristine
    /\ \E t \in Returned : result[t] = << >>

\* C9: the prefix test is lexical and case-sensitive: a URL whose first four
\* characters are the lowercase s, t, u, n is cut at its first "?" (and kept
\* whole when it has none), whatever follows; every other URL is returned
\* unchanged.
C9_LexicalPrefix ==
    \A t \in Returned : \A q \in stored_positions :
        LET u == stored_url(q)
        IN  returned_url(t, q) =
                IF begins(u, "s", "t", "u", "n") /\ has_query(u)
                THEN before_first_query(u)
                ELSE u

C9_Witness ==
    \E t \in Returned : \E q \in stored_positions :
        /\ begins(stored_url(q), "S", "T", "U", "N")
        /\ has_query(stored_url(q))
        /\ returned_url(t, q) = stored_url(q)

\* C10: the returned list has the shape of the stored one: as many entries in
\* the same order, each with the same username and credential and as many
\* URLs, and each returned URL is a prefix of the stored URL at its position.
C10_ShapePreserved ==
    \A t \in Returned :
        /\ Len(result[t]) = Len(cfg.ice_servers)
        /\ \A i \in 1 .. Len(cfg.ice_servers) :
               i <= Len(result[t]) =>
                   /\ result[t][i].username = cfg.ice_servers[i].username
                   /\ result[t][i].credential = cfg.ice_servers[i].credential
                   /\ Len(result[t][i].urls) = Len(cfg.ice_servers[i].urls)
        /\ \A q \in stored_positions : is_prefix(returned_url(t, q), stored_url(q))

C10_Witness ==
    \E t \in Returned :
        /\ Len(result[t]) = 2
        /\ Len(result[t][1].urls) = 0
        /\ Len(result[t][2].urls) = 2
        /\ result[t][2].urls[1] = cfg.ice_servers[2].urls[1]
        /\ Len(result[t][2].urls[2]) < Len(cfg.ice_servers[2].urls[2])

====
